---- MODULE Spec2Model ----
(***************************************************************************)
(* Model of the orijen-udf-service agents.                                 *)
(*                                                                         *)
(*   base : src/base/app/app.py  metadata -> lab info -> SQS heartbeat     *)
(*          loop with an atexit teardown message                           *)
(*   site : src/site/app/app.py  metadata -> lab info -> one-shot CE       *)
(*          registration                                                   *)
(*   app  : src/app/app.py       metadata (with region probing) -> SQS     *)
(*          heartbeat loop                                                 *)
(*                                                                         *)
(* A run of main() is a state machine: pc is the position of main, frame   *)
(* is the call frame of the fetch_metadata call in progress (or just       *)
(* returned), the other variables are main's and the callee's locals and   *)
(* the observable history (requests issued, messages sent, sleeps).        *)
(***************************************************************************)
EXTENDS Integers, Sequences, FiniteSets, TLC

VARIABLES
    variant,      \* which of the three programs runs
    pc,           \* position of main()
    frame,        \* fetch_metadata call frame (NoFrame when none)
    called,       \* metadata endpoints requested so far, in order of first request
    deployment,   \* query_metadata local: body of /deployment
    cloud,        \* query_metadata temporary: what the cloudAccounts fetch returned
    report,       \* the failure message query_metadata printed ("" when none)
    tags,         \* query_metadata local: runner_user_tags / deployment_tags
    metadata,     \* main local: result of query_metadata
    labInfo,      \* main local: result of get_lab_info
    sqs_meta,     \* main local: result of build_sqs_meta
    retries,      \* main local: consecutive failure counter of the heartbeat loop
    retry_delay,  \* main local: delay chosen by the last loop iteration
    hook,         \* TRUE once atexit.register(send_sqs, sqs_meta, True) ran
    sent,         \* history: every send_sqs call that returned, in order
    inflight,     \* the send_sqs calls that have started and not yet ended
    clients,      \* history: number of boto3.client('sqs', ...) calls
    slept,        \* history: every time.sleep of the heartbeat loop, in order
    reg,          \* register_ce locals and history
    exit_status,  \* process exit status (Running while it runs)
    cause,        \* why the process ended
    fn            \* input/output of the pure-function specifications

vars == <<variant, pc, frame, called, deployment, cloud, report, tags,
          metadata, labInfo, sqs_meta, retries, retry_delay, hook, sent,
          inflight, clients, slept, reg, exit_status, cause, fn>>

-----------------------------------------------------------------------------
(* Python values.  None is Null; a dict key is Missing, Null or Val(v).    *)

Null == [k |-> "null"]
Missing == [k |-> "missing"]
Val(v) == [k |-> "val", v |-> v]
IsVal(x) == x.k = "val"

\* d.get(key): a missing key reads as None
Get(x) == IF x.k = "missing" THEN Null ELSE x

\* Python truthiness of the values the programs test
Truthy(x) == x.k = "val"

Running == 0 - 1

-----------------------------------------------------------------------------
(* Bounds of the model.                                                    *)

\* heartbeat sends explored in one run
MaxSends == 10
\* cloud accounts per cloudAccounts body
MaxAccounts == 2
\* credentials per cloud account
MaxCreds == 2
\* candidate regions per cloud account
MaxRegions == 3
\* distinct probe latencies
MaxLatency == 3
\* longest encoded tag value given to b64_lazy_decode
MaxTagLen == 63

-----------------------------------------------------------------------------
(* Program constants.                                                      *)

\* fetch_metadata(url, max_retries=5)
FetchMaxRetries == 5
\* fetch_metadata: retry_delay = 1
FetchFirstDelay == 1
\* main (base): max_retries = 6
SqsMaxRetries == 6
\* main (base): retry_delay = 60 after a successful send
SuccessDelay == 60
\* main (base): retry_delay = 10 after a failed send
FailureDelay == 10
\* register_ce(..., max_retries=5)
RegMaxRetries == 5
\* register_ce: retry_delay = 10
RegFirstDelay == 10

Variants == {"base", "site", "app"}

\* find_aws_region(cloud_account, default_region='us-west-2')
DefaultRegion == "us-west-2"

AwsType == "AWS_API_CREDENTIAL"

-----------------------------------------------------------------------------
(* The metadata service: endpoints and the bodies they can answer with.    *)

DeploymentUrl == "deployment"
RunnerTagsUrl == "userTags/name/XC/value/runner"
DeploymentTagsUrl == "deploymentTags"
CloudAccountsUrl == "cloudAccounts"
CeTagsUrl == "userTags/name/XC/value/CE"

\* the second endpoint query_metadata reads
TagsUrl(v) == IF v = "app" THEN DeploymentTagsUrl ELSE RunnerTagsUrl

\* {"deployment": {"id": ..., "deployer": ...}} and its incomplete forms
DeploymentBodies ==
    { [deployment |-> Missing] } \cup
    { [deployment |-> Val([id |-> i, deployer |-> d])] :
        i \in {Missing, Val("dep-123")}, d \in {Missing, Val("alice")} }

Tag(n, v) == [name |-> n, value |-> v]

\* [{"userTags": [{"name": ..., "value": ...}]}] and its incomplete forms
RunnerTagBodies ==
    { <<>>,
      << [userTags |-> Missing] >>,
      << [userTags |-> Val(<< Tag("Owner", Val("bob")) >>)] >>,
      << [userTags |-> Val(<< Tag("LabID", Missing) >>)] >>,
      << [userTags |-> Val(<< Tag("Owner", Val("bob")), Tag("LabID", Val("LAB1")) >>)] >> }

\* {"LabID": ..., "SQS": ...} (app variant)
DeploymentTagBodies ==
    { [LabID |-> l, SQS |-> q] :
        l \in {Missing, Val("LAB1")}, q \in {Missing, Val("queue-url")} }

Cred(t, key) == [type |-> t, key |-> Val(key), secret |-> Val(<<"secret", key>>)]

CredTypes == {"X", AwsType}

\* the credentials of account a: the key names the position in the body
CredLists(a) ==
    UNION { { [j \in 1..n |-> Cred(ts[j], <<a, j>>)] : ts \in [1..n -> CredTypes] } :
            n \in 0..MaxCreds }

Account(cs) == [credentials |-> cs, regions |-> << "a", "b" >>]

\* every cloudAccounts list within the bounds
AccountLists ==
    UNION { { [a \in 1..n |-> Account(cl[a])] :
                cl \in { f \in [1..n -> UNION { CredLists(a) : a \in 1..n }] :
                           \A a \in 1..n : f[a] \in CredLists(a) } } :
            n \in 0..MaxAccounts }

\* the cloudAccounts bodies a run of main() is offered
CloudBodies ==
    { [cloudAccounts |-> Missing],
      [cloudAccounts |-> Val(<< Account(<< Cred("X", <<1, 1>>) >>) >>)],
      [cloudAccounts |-> Val(<< Account(<< Cred("X", <<1, 1>>) >>),
                                Account(<< Cred(AwsType, <<2, 1>>) >>) >>)] }

\* [{"mgmtIp": ...}] and its incomplete forms (site variant)
CeTagBodies ==
    { <<>>,
      << [mgmtIp |-> Missing] >>,
      << [mgmtIp |-> Null] >>,
      << [mgmtIp |-> Val("10.1.1.5")] >> }

Bodies(url) ==
    CASE url = DeploymentUrl -> DeploymentBodies
      [] url = RunnerTagsUrl -> RunnerTagBodies
      [] url = DeploymentTagsUrl -> DeploymentTagBodies
      [] url = CloudAccountsUrl -> CloudBodies
      [] url = CeTagsUrl -> CeTagBodies

-----------------------------------------------------------------------------
(* Pure helpers of the programs.                                           *)

\* find_user_tags(meta_tags, tags): meta_tags is a fetch result, wanted the
\* tag names asked for.  Any exception inside the try yields None.
find_user_tags(meta_tags, wanted) ==
    IF ~IsVal(meta_tags) THEN Null                  \* None[0]: TypeError
    ELSE IF Len(meta_tags.v) = 0 THEN Null          \* [][0]: IndexError
    ELSE
      LET first == meta_tags.v[1].userTags
          all_tags == IF IsVal(first) THEN first.v ELSE <<>>
          tag_list == SelectSeq(all_tags, LAMBDA t : t.name \in wanted)
          names == { tag_list[i].name : i \in DOMAIN tag_list }
          last(n) == CHOOSE i \in DOMAIN tag_list :
                        /\ tag_list[i].name = n
                        /\ \A j \in DOMAIN tag_list : tag_list[j].name = n => j <= i
      IN IF \E i \in DOMAIN tag_list : ~IsVal(tag_list[i].value)
           THEN Null                                \* tag["value"]: KeyError
         ELSE IF Cardinality(names) = Cardinality(wanted)
           THEN Val([n \in names |-> tag_list[last(n)].value])
         ELSE Null

\* faulty variant: the last credential of the wanted type in the account
RECURSIVE ScanCredentialsLast(_, _)
ScanCredentialsLast(creds, j) ==
    IF j > Len(creds) THEN Null
    ELSE LET later == ScanCredentialsLast(creds, j + 1)
         IN IF IsVal(later) THEN later
            ELSE IF creds[j].type = AwsType THEN Val(creds[j])
            ELSE Null

\* the inner loop of find_aws_cred: first credential of the wanted type
\* among creds[j..], or None
RECURSIVE ScanCredentials(_, _)
ScanCredentials(creds, j) ==
    IF j > Len(creds) THEN Null
    ELSE IF creds[j].type = AwsType THEN Val(creds[j])
    ELSE ScanCredentials(creds, j + 1)

\* the outer loop of find_aws_cred over accounts[i..]
RECURSIVE ScanAccounts(_, _)
ScanAccounts(accounts, i) ==
    IF i > Len(accounts) THEN Null
    ELSE LET hit == ScanCredentials(accounts[i].credentials, 1)
         IN IF IsVal(hit) THEN hit ELSE ScanAccounts(accounts, i + 1)

\* find_aws_cred(cloud_accounts): cloud_accounts is a fetch result
find_aws_cred(cloud_accounts) ==
    IF ~IsVal(cloud_accounts) THEN Null             \* None.get: AttributeError
    ELSE LET accounts == cloud_accounts.v.cloudAccounts
         IN IF IsVal(accounts) THEN ScanAccounts(accounts.v, 1)
            ELSE Null                               \* .get default []: falls through

\* latency_map[region] = latency on a dict that keeps insertion order:
\* a key already present keeps its place and takes the new value
DictPut(map, region, latency) ==
    IF \E i \in DOMAIN map : map[i][1] = region
      THEN [i \in DOMAIN map |->
              IF map[i][1] = region THEN <<region, latency>> ELSE map[i]]
      ELSE Append(map, <<region, latency>>)

\* the probe loop of find_aws_region: probes[i] = 0 is a probe that raised,
\* another value the elapsed time measured
RECURSIVE ProbeAll(_, _, _, _)
ProbeAll(regions, probes, i, map) ==
    IF i > Len(regions) THEN map
    ELSE ProbeAll(regions, probes, i + 1,
                  IF probes[i] = 0 THEN map
                  ELSE DictPut(map, regions[i], probes[i]))

\* faulty variant: an item goes before the items of equal latency
RECURSIVE InsertSortedUnstable(_, _)
InsertSortedUnstable(sorted, item) ==
    IF sorted = <<>> THEN << item >>
    ELSE IF Head(sorted)[2] < item[2]
      THEN << Head(sorted) >> \o InsertSortedUnstable(Tail(sorted), item)
    ELSE << item >> \o sorted

\* insertion of one item into a list sorted by latency, after every item
\* whose latency is not greater (a stable sort)
RECURSIVE InsertSorted(_, _)
InsertSorted(sorted, item) ==
    IF sorted = <<>> THEN << item >>
    ELSE IF Head(sorted)[2] <= item[2]
      THEN << Head(sorted) >> \o InsertSorted(Tail(sorted), item)
    ELSE << item >> \o sorted

\* sorted(latency_map.items(), key=lambda p: p[1], reverse=False)
RECURSIVE SortedByLatency(_)
SortedByLatency(items) ==
    IF items = <<>> THEN <<>>
    ELSE InsertSorted(SortedByLatency(SubSeq(items, 1, Len(items) - 1)),
                      items[Len(items)])

\* find_aws_region(cloud_account) under the probe outcomes probes
find_aws_region(regions, probes) ==
    LET latency_map == ProbeAll(regions, probes, 1, <<>>)
        fastest_region == SortedByLatency(latency_map)
    IN IF fastest_region # <<>> THEN fastest_region[1][1] ELSE DefaultRegion

\* first account (from i on) holding a credential of the wanted type
RECURSIVE ScanAccountsApp(_, _, _)
ScanAccountsApp(accounts, probes, i) ==
    IF i > Len(accounts) THEN Null
    ELSE LET hit == ScanCredentials(accounts[i].credentials, 1)
         IN IF IsVal(hit)
              THEN Val([aws_cred |-> hit.v,
                        region |-> find_aws_region(accounts[i].regions, probes)])
              ELSE ScanAccountsApp(accounts, probes, i + 1)

\* find_aws_metadata(cloud_accounts) (app variant) under probe outcomes probes
find_aws_metadata(cloud_accounts, probes) ==
    IF ~IsVal(cloud_accounts) THEN Null
    ELSE LET accounts == cloud_accounts.v.cloudAccounts
         IN IF IsVal(accounts) THEN ScanAccountsApp(accounts.v, probes, 1)
            ELSE Null

\* find_sqs_region(url): the url is its sequence of labels; the pattern
\* sqs\.([\w-]+)\.amazonaws\.com matches at the first "sqs" label followed,
\* one label later, by "amazonaws" and "com"
find_sqs_region(url) ==
    LET hits == { i \in 1..(Len(url) - 3) :
                    /\ url[i] = "sqs"
                    /\ url[i + 2] = "amazonaws"
                    /\ url[i + 3] = "com" }
    IN IF hits = {} THEN Null                       \* None.group: AttributeError
       ELSE Val(url[(CHOOSE i \in hits : \A j \in hits : i <= j) + 1])

\* an exception leaving a function
Raise(e) == [k |-> "raise", exc |-> e]
IsRaise(x) == x.k = "raise"

\* the dict query_metadata returns, or what its last try block does instead:
\* None["id"] is a TypeError, which `except (KeyError, IndexError)` lets go;
\* a missing "id" or "deployer" is a KeyError, which it turns into None
ExtractMetadata(v, dep, tg, cred) ==
    LET record == Get(dep.v.deployment)
    IN IF ~IsVal(record) THEN Raise("TypeError")
       ELSE IF ~IsVal(record.v.id) THEN Null
       ELSE IF v # "site" /\ ~IsVal(record.v.deployer) THEN Null
       ELSE IF v = "base"
         THEN Val([depID |-> record.v.id, deployer |-> record.v.deployer,
                   labID |-> tg.v["LabID"],
                   awsSecret |-> Get(cred.v.secret), awsKey |-> Get(cred.v.key)])
       ELSE IF v = "site"
         THEN Val([depID |-> record.v.id,
                   labID |-> tg.v["LabID"],
                   awsSecret |-> Get(cred.v.secret), awsKey |-> Get(cred.v.key)])
       ELSE Val([depID |-> record.v.id, deployer |-> record.v.deployer,
                 labID |-> Get(tg.v.LabID), sqsURL |-> Get(tg.v.SQS),
                 awsSecret |-> Get(cred.v.aws_cred.secret),
                 awsKey |-> Get(cred.v.aws_cred.key),
                 region |-> cred.v.region])

QueueUrl == << "https://", "sqs", "us-east-1", "amazonaws", "com", "/queue" >>
OtherUrl == << "https://", "queue", "example", "com", "/queue" >>

\* the lab descriptors the registry can hold for a lab
LabDescriptors(v) ==
    IF v = "base"
      THEN { [sqsURL |-> u, siteStatic |-> Missing] :
               u \in {Missing, Val(QueueUrl), Val(OtherUrl)} }
      ELSE { [sqsURL |-> Missing, siteStatic |-> s] :
               s \in {Missing, Val("siteStatic")} }

\* get_lab_info(metadata): every result it can return.  metadata = None makes
\* metadata['awsKey'] a TypeError, caught; so is any S3 or YAML error
LabInfoResults(v, md) ==
    IF ~IsVal(md) THEN { Null }
    ELSE { Null } \cup { Val(d) : d \in LabDescriptors(v) }

\* build_sqs_meta(metadata, lab_info): any exception yields None
build_sqs_meta(md, lab_info) ==
    IF ~IsVal(md) THEN Null                         \* None['depID']: TypeError
    ELSE IF ~IsVal(lab_info) THEN Null              \* None['sqsURL']: TypeError
    ELSE IF ~IsVal(lab_info.v.sqsURL) THEN Null     \* KeyError
    ELSE Val([depID |-> md.v.depID, deployer |-> md.v.deployer,
              labID |-> md.v.labID, sqsURL |-> lab_info.v.sqsURL,
              region |-> find_sqs_region(lab_info.v.sqsURL.v),
              awsKey |-> md.v.awsKey, awsSecret |-> md.v.awsSecret])

\* faulty variant: the message carries the lab id in its id field
MessageLabAsId(meta, kill) ==
    [id |-> meta.v.labID, deployer |-> meta.v.deployer,
     lab_id |-> meta.v.labID, kill |-> kill]

\* the message send_sqs builds
Message(meta, kill) ==
    [id |-> meta.v.depID, deployer |-> meta.v.deployer,
     lab_id |-> meta.v.labID, kill |-> kill]

-----------------------------------------------------------------------------
(* fetch_metadata                                                          *)

\* query_metadata has printed no failure message
NoReport == ""

NoFrame == [st |-> "none"]

\* the frame of a fresh call fetch_metadata(url)
NewFrame(url) ==
    [st |-> "try", url |-> url, max_retries |-> FetchMaxRetries,
     attempt |-> 0, retry_delay |-> FetchFirstDelay,
     log |-> <<>>, sleeps |-> <<>>, result |-> Null]

\* what requests.get / raise_for_status / response.json can raise; all are
\* subclasses of requests.RequestException
ErrorKinds == {"HTTPError", "ConnectionError", "Timeout", "JSONDecodeError"}
RequestExceptions == {"HTTPError", "ConnectionError", "Timeout", "JSONDecodeError"}

\* faulty variant: only HTTP status errors are caught
CaughtHttpOnly(v, kind) == kind = "HTTPError"

\* the except clause of fetch_metadata: `except requests.RequestException`
\* (base, app), `except Exception` (site)
Caught(v, kind) == v = "site" \/ kind \in RequestExceptions

\* faulty variant: the delay grows by one instead of doubling
NextDelayLinear(d) == d + 1

\* retry_delay *= 2
NextDelay(d) == d * 2

\* the endpoints requested so far, in order of first request
Called(seq, url) ==
    IF \E i \in DOMAIN seq : seq[i] = url THEN seq ELSE Append(seq, url)

mainLocals == <<deployment, cloud, report, tags, metadata, labInfo, sqs_meta>>
loopVars == <<retries, retry_delay, hook, sent, inflight, clients, slept>>
exitVars == <<exit_status, cause>>

\* one iteration of the for loop up to the sleep: the request and its outcome
FetchRequest ==
    /\ frame.st = "try"
    /\ \E out \in {"ok"} \cup ErrorKinds :
         LET logged == [frame EXCEPT !.log = Append(@, out)]
         IN IF out = "ok"
              THEN /\ \E b \in Bodies(frame.url) :
                        frame' = [logged EXCEPT !.st = "done", !.result = Val(b)]
                   /\ pc' = pc
            ELSE IF ~Caught(variant, out)
              THEN /\ frame' = [logged EXCEPT !.st = "raised"]
                   /\ pc' = "raise"
            ELSE IF frame.attempt < frame.max_retries - 1
              THEN /\ frame' = [logged EXCEPT !.st = "sleep"]
                   /\ pc' = pc
            ELSE /\ frame' = [logged EXCEPT !.st = "done", !.result = Null]
                 /\ pc' = pc
    /\ called' = Called(called, frame.url)
    /\ UNCHANGED <<variant, mainLocals, loopVars, reg, exitVars, fn>>

\* time.sleep(retry_delay); retry_delay *= 2; next iteration
FetchSleep ==
    /\ frame.st = "sleep"
    /\ frame' = [frame EXCEPT !.st = "try",
                              !.sleeps = Append(@, frame.retry_delay),
                              !.retry_delay = NextDelay(@),
                              !.attempt = @ + 1]
    /\ UNCHANGED <<variant, pc, called, mainLocals, loopVars, reg, exitVars, fn>>

-----------------------------------------------------------------------------
(* query_metadata and the start of main                                    *)

\* where main continues once query_metadata has returned
AfterQuery(v) == IF v = "app" THEN "branch" ELSE "get_lab_info"

\* sys.exit(status)
SysExit(status, why) ==
    /\ pc' = "exiting"
    /\ exit_status' = status
    /\ cause' = why

\* what query_metadata prints before it returns None
QueryMessage(v, stage) ==
    CASE stage = "deployment" ->
           IF v = "app" THEN "Unable to find deployment data."
                        ELSE "Unable to find Deployment Metadata."
      [] stage = "tags" ->
           IF v = "app" THEN "Unable to find deployment tags."
                        ELSE "Unable to find Runner Metadata."
      [] stage = "cloud" ->
           IF v = "app" THEN "Unable to find AWS metadata."
                        ELSE "Unable to find AWS Metadata."
      [] stage = "extract" -> "Error extracting metadata"

\* what the credential stage prints when the scan of `result` gave None: the
\* fetch and the scan are one nested call and the stage tests only its value
CredentialReport(v, result) == QueryMessage(v, "cloud")

\* main calls query_metadata, which calls fetch_metadata(.../deployment)
Main_Start ==
    /\ pc = "start"
    /\ pc' = "qm_deployment"
    /\ frame' = NewFrame(DeploymentUrl)
    /\ UNCHANGED <<variant, called, mainLocals, loopVars, reg, exitVars, fn>>

\* faulty variant: the deployment stage does not return on a failed fetch and
\* goes on to the tag stage
QM_DeploymentGoesOn ==
    /\ pc = "qm_deployment"
    /\ frame.st = "done"
    /\ deployment' = frame.result
    /\ pc' = "qm_tags"
    /\ frame' = NewFrame(TagsUrl(variant))
    /\ UNCHANGED <<variant, called, cloud, report, tags, metadata, labInfo,
                   sqs_meta, loopVars, reg, exitVars, fn>>

\* deployment = fetch_metadata(...); if deployment is None: return None
QM_Deployment ==
    /\ pc = "qm_deployment"
    /\ frame.st = "done"
    /\ deployment' = frame.result
    /\ IF ~IsVal(frame.result)
         THEN /\ metadata' = Null
              /\ report' = QueryMessage(variant, "deployment")
              /\ pc' = AfterQuery(variant)
              /\ frame' = NoFrame
         ELSE /\ metadata' = metadata
              /\ report' = report
              /\ pc' = "qm_tags"
              /\ frame' = NewFrame(TagsUrl(variant))
    /\ UNCHANGED <<variant, called, cloud, tags, labInfo, sqs_meta, loopVars,
                   reg, exitVars, fn>>

\* the value the tag stage keeps: find_user_tags(..., ["LabID"]) in base and
\* site, the fetched deploymentTags body itself in app
TagStage(v, result) ==
    IF v = "app" THEN result ELSE find_user_tags(result, {"LabID"})

\* the tag stage; if it is None: return None
QM_Tags ==
    /\ pc = "qm_tags"
    /\ frame.st = "done"
    /\ tags' = TagStage(variant, frame.result)
    /\ IF ~IsVal(tags')
         THEN /\ metadata' = Null
              /\ report' = QueryMessage(variant, "tags")
              /\ pc' = AfterQuery(variant)
              /\ frame' = NoFrame
         ELSE /\ metadata' = metadata
              /\ report' = report
              /\ pc' = "qm_cloud"
              /\ frame' = NewFrame(CloudAccountsUrl)
    /\ UNCHANGED <<variant, called, deployment, cloud, labInfo, sqs_meta,
                   loopVars, reg, exitVars, fn>>

\* probe outcomes for the regions of an account: 0 = the probe raised
ProbeOutcomes(n) == [1..n -> 0..MaxLatency]

\* the credential stage, then the final try block and the return
QM_Cloud ==
    /\ pc = "qm_cloud"
    /\ frame.st = "done"
    /\ \E probes \in IF variant = "app"
                       THEN ProbeOutcomes(Len(Account(<<>>).regions))
                       ELSE { <<>> } :
         LET cred == IF variant = "app"
                       THEN find_aws_metadata(frame.result, probes)
                       ELSE find_aws_cred(frame.result)
             out == IF ~IsVal(cred) THEN Null
                    ELSE ExtractMetadata(variant, deployment, tags, cred)
         IN IF IsRaise(out)
              THEN /\ metadata' = metadata
                   /\ report' = report
                   /\ pc' = "raise"
              ELSE /\ metadata' = out
                   /\ report' = IF ~IsVal(cred) THEN CredentialReport(variant, frame.result)
                                ELSE IF ~IsVal(out) THEN QueryMessage(variant, "extract")
                                ELSE report
                   /\ pc' = AfterQuery(variant)
    /\ cloud' = frame.result
    /\ frame' = NoFrame
    /\ UNCHANGED <<variant, called, deployment, tags, labInfo, sqs_meta,
                   loopVars, reg, exitVars, fn>>

\* labInfo = get_lab_info(metadata)
Main_GetLabInfo ==
    /\ pc = "get_lab_info"
    /\ \E li \in LabInfoResults(variant, metadata) : labInfo' = li
    /\ pc' = IF variant = "base" THEN "build_sqs_meta" ELSE "branch"
    /\ UNCHANGED <<variant, frame, called, deployment, cloud, report, tags,
                   metadata, sqs_meta, loopVars, reg, exitVars, fn>>

\* sqs_meta = build_sqs_meta(metadata, labInfo)   (base)
Main_BuildSqsMeta ==
    /\ pc = "build_sqs_meta"
    /\ sqs_meta' = build_sqs_meta(metadata, labInfo)
    /\ pc' = "branch"
    /\ UNCHANGED <<variant, frame, called, deployment, cloud, report, tags,
                   metadata, labInfo, loopVars, reg, exitVars, fn>>

\* faulty variant: main tests only the result of query_metadata
ResolvedMetadataOnly == Truthy(metadata)

\* the condition of main's if
Resolved ==
    CASE variant = "base" -> Truthy(sqs_meta)
      [] variant = "site" -> Truthy(metadata) /\ Truthy(labInfo)
      [] variant = "app" -> Truthy(metadata)

\* else: print("Failed to retrieve ..."); sys.exit(1)
Main_Fail ==
    /\ pc = "branch"
    /\ ~Resolved
    /\ SysExit(1, "resolution")
    /\ UNCHANGED <<variant, frame, called, mainLocals, loopVars, reg, fn>>

\* app: payload = {"LabID": metadata['LabID']} -- the dict has no such key
Main_AppPayload ==
    /\ pc = "branch"
    /\ variant = "app"
    /\ Resolved
    /\ pc' = "raise"
    /\ UNCHANGED <<variant, frame, called, mainLocals, loopVars, reg,
                   exitVars, fn>>

\* an exception nobody catches: traceback, exit status 1; the interpreter
\* still runs the atexit hooks
Unhandled ==
    /\ pc = "raise"
    /\ SysExit(1, "exception")
    /\ UNCHANGED <<variant, frame, called, mainLocals, loopVars, reg, fn>>

-----------------------------------------------------------------------------
(* The heartbeat loop of main (base), the atexit hook and signals          *)

\* what send_sqs can do: build the client and message and send (a response,
\* truthy), or fail in either try block (None)
SendOutcomes == {"ok", "client_error", "send_error"}

\* one entry of the history of send_sqs calls
SendRecord(meta, kill, out) == [msg |-> Message(meta, kill), ok |-> out = "ok"]

\* faulty variant: a success leaves the counter as it is (failures accumulate)
NextRetriesNoReset(r, success) == IF success THEN r ELSE r + 1

\* retries after one iteration: retries = 0 on success, retries += 1 otherwise
NextRetries(r, success) == IF success THEN 0 ELSE r + 1

\* faulty variant: the short delay after a success as well
DelayAfterAlwaysShort(success) == FailureDelay

\* retry_delay after one iteration
DelayAfter(success) == IF success THEN SuccessDelay ELSE FailureDelay

\* the while condition
LoopContinues(r) == r < SqsMaxRetries

\* if sqs_meta: max_retries = 6; retries = 0; atexit.register(send_sqs, sqs_meta, True)
Main_EnterLoop ==
    /\ pc = "branch"
    /\ variant = "base"
    /\ Resolved
    /\ retries' = 0
    /\ hook' = TRUE
    /\ pc' = "loop"
    /\ UNCHANGED <<variant, frame, called, mainLocals, retry_delay, sent,
                   inflight, clients, slept, reg, exitVars, fn>>

\* faulty variant: the client built by the first call is kept and reused
SendBeginsReusing(kill) ==
    /\ inflight' = Append(inflight, [msg |-> Message(sqs_meta, kill),
                                      client |-> 1])
    /\ clients' = IF clients = 0 THEN 1 ELSE clients

\* send_sqs is entered: the call is in flight from here until it returns or
\* is abandoned; its first statement is sqs = boto3.client('sqs', ...), a
\* local of this call
SendBegins(kill) ==
    /\ inflight' = Append(inflight, [msg |-> Message(sqs_meta, kill),
                                      client |-> clients + 1])
    /\ clients' = clients + 1

\* while retries < max_retries: success = send_sqs(sqs_meta) is called
Loop_Send ==
    /\ pc = "loop"
    /\ LoopContinues(retries)
    /\ Len(sent) < MaxSends
    /\ SendBegins(FALSE)
    /\ pc' = "sending"
    /\ UNCHANGED <<variant, frame, called, mainLocals, retries, retry_delay,
                   hook, sent, slept, reg, exitVars, fn>>

\* send_sqs returns; the loop updates retries and retry_delay
Loop_SendDone ==
    /\ pc = "sending"
    /\ \E out \in SendOutcomes :
         /\ sent' = Append(sent, SendRecord(sqs_meta, FALSE, out))
         /\ retries' = NextRetries(retries, out = "ok")
         /\ retry_delay' = DelayAfter(out = "ok")
    /\ inflight' = <<>>
    /\ pc' = "sleep"
    /\ UNCHANGED <<variant, frame, called, mainLocals, hook, clients, slept,
                   reg, exitVars, fn>>

\* time.sleep(retry_delay)
Loop_Sleep ==
    /\ pc = "sleep"
    /\ slept' = Append(slept, retry_delay)
    /\ pc' = "loop"
    /\ UNCHANGED <<variant, frame, called, mainLocals, retries, retry_delay,
                   hook, sent, inflight, clients, reg, exitVars, fn>>

\* faulty variant: at the ceiling the counter starts again and the loop goes on
Loop_ExitStartsOver ==
    /\ pc = "loop"
    /\ ~LoopContinues(retries)
    /\ retries' = 0
    /\ UNCHANGED <<variant, pc, frame, called, mainLocals, retry_delay, hook,
                   sent, inflight, clients, slept, reg, exitVars, fn>>

\* the loop ends: print("Max SQS retries reached. Exiting."); sys.exit(1)
Loop_Exit ==
    /\ pc = "loop"
    /\ ~LoopContinues(retries)
    /\ SysExit(1, "ceiling")
    /\ UNCHANGED <<variant, frame, called, mainLocals, loopVars, reg, fn>>

InLoop == pc \in {"loop", "sending", "sleep"}

\* faulty variant: the interrupted call keeps running
Continued(calls) == calls

\* the calls in flight once an exception has unwound the stack: none, the
\* program has one thread and the interrupted send_sqs is abandoned
Abandoned(calls) == <<>>

\* SIGINT while the loop runs: KeyboardInterrupt is raised in main, nothing
\* catches it (send_sqs catches Exception only), the interpreter shuts down
\* normally and runs the atexit hooks
Sigint ==
    /\ InLoop
    /\ SysExit(128 + 2, "sigint")
    /\ inflight' = Abandoned(inflight)
    /\ UNCHANGED <<variant, frame, called, mainLocals, retries, retry_delay,
                   hook, sent, clients, slept, reg, fn>>

\* SIGTERM while the loop runs: the program installs no handler, the default
\* action kills the process, and atexit hooks are not run for a process
\* killed by a signal
Sigterm ==
    /\ InLoop
    /\ pc' = "killed"
    /\ exit_status' = 128 + 15
    /\ cause' = "sigterm"
    /\ inflight' = Abandoned(inflight)
    /\ UNCHANGED <<variant, frame, called, mainLocals, retries, retry_delay,
                   hook, sent, clients, slept, reg, fn>>

\* interpreter shutdown with the hook registered: send_sqs(sqs_meta, True)
\* is called once
Teardown ==
    /\ pc = "exiting"
    /\ hook
    /\ SendBegins(TRUE)
    /\ pc' = "teardown"
    /\ UNCHANGED <<variant, frame, called, mainLocals, retries, retry_delay,
                   hook, sent, slept, reg, exitVars, fn>>

\* faulty variant: a failed teardown send turns the exit status into 1
StatusAfterTeardownEscalated(status, out) == IF out = "ok" THEN status ELSE 1

\* the exit status once the hook has returned: atexit drops the hook's
\* result, and send_sqs has caught its own exceptions
StatusAfterTeardown(status, out) == status

\* the hook returns; the process ends with the status decided before
TeardownDone ==
    /\ pc = "teardown"
    /\ \E out \in SendOutcomes :
         /\ sent' = Append(sent, SendRecord(sqs_meta, TRUE, out))
         /\ exit_status' = StatusAfterTeardown(exit_status, out)
    /\ inflight' = <<>>
    /\ pc' = "exited"
    /\ UNCHANGED <<variant, frame, called, mainLocals, retries, retry_delay,
                   hook, clients, slept, reg, cause, fn>>

\* interpreter shutdown with no hook registered
Exit ==
    /\ pc = "exiting"
    /\ ~hook
    /\ pc' = "exited"
    /\ UNCHANGED <<variant, frame, called, mainLocals, loopVars, reg,
                   exitVars, fn>>

-----------------------------------------------------------------------------
(* register_ce and the end of main (site)                                  *)

NoReg == [st |-> "none"]

\* register_ce's locals at the start of its retry loop
NewReg ==
    [st |-> "loop", max_retries |-> RegMaxRetries, attempt |-> 0,
     retry_delay |-> RegFirstDelay, log |-> <<>>, sleeps |-> <<>>,
     result |-> Null]

\* what one POST attempt can do: 200 with a truthy body ("ok"); a 2xx other
\* than 200 or a falsy body, which raises nothing ("soft"); or raise
PostOutcomes == {"ok", "soft"} \cup ErrorKinds

\* the except clause of the retry loop: `except requests.RequestException`
RegCaught(kind) == kind \in RequestExceptions

\* how an attempt is entered in register_ce's history
PostClass(out) == IF out \in {"ok", "soft"} THEN out ELSE "error"

\* faulty variant: register_ce keeps a constant delay
RegNextDelayConstant(d) == d

\* retry_delay *= 2 in register_ce
RegNextDelay(d) == d * 2

\* ce_ip = fetch_metadata(...)[0]["mgmtIp"], outside every try block
CeIp(result) ==
    IF ~IsVal(result) THEN Raise("TypeError")       \* None[0]
    ELSE IF Len(result.v) = 0 THEN Raise("IndexError")
    ELSE IF result.v[1].mgmtIp = Missing THEN Raise("KeyError")
    ELSE result.v[1].mgmtIp

\* if metadata and labInfo: success = register_ce(metadata, labInfo), which
\* starts with fetch_metadata(.../userTags/name/XC/value/CE)
Main_Register ==
    /\ pc = "branch"
    /\ variant = "site"
    /\ Resolved
    /\ frame' = NewFrame(CeTagsUrl)
    /\ pc' = "reg_ce_ip"
    /\ UNCHANGED <<variant, called, mainLocals, loopVars, reg, exitVars, fn>>

\* the CE lookup, the `ce_ip is None` test and the payload
Reg_CeIp ==
    /\ pc = "reg_ce_ip"
    /\ frame.st = "done"
    /\ LET ce_ip == CeIp(frame.result)
       IN IF IsRaise(ce_ip)
            THEN /\ pc' = "raise"
                 /\ reg' = reg
          ELSE IF ~IsVal(ce_ip)                      \* "Unable to find CE IP."
            THEN /\ pc' = "reg_return"
                 /\ reg' = [NewReg EXCEPT !.st = "done"]
          ELSE IF ~IsVal(labInfo.v.siteStatic)       \* KeyError, outer except
            THEN /\ pc' = "reg_return"
                 /\ reg' = [NewReg EXCEPT !.st = "done"]
          ELSE /\ pc' = "reg_post"
               /\ reg' = NewReg
    /\ frame' = NoFrame
    /\ UNCHANGED <<variant, called, mainLocals, loopVars, exitVars, fn>>

\* one iteration of register_ce's for loop up to the sleep
Reg_Post ==
    /\ pc = "reg_post"
    /\ \E out \in PostOutcomes :
         LET logged == [reg EXCEPT !.log = Append(@, PostClass(out))]
         IN IF out = "ok"                            \* return True
              THEN /\ reg' = [logged EXCEPT !.st = "done", !.result = Val(TRUE)]
                   /\ pc' = "reg_return"
            ELSE IF out = "soft"                     \* no exception: next iteration
              THEN IF reg.attempt < reg.max_retries - 1
                     THEN /\ reg' = [logged EXCEPT !.attempt = @ + 1]
                          /\ pc' = "reg_post"
                     ELSE /\ reg' = [logged EXCEPT !.st = "done"]
                          /\ pc' = "reg_return"      \* falls off the end: None
            ELSE IF ~RegCaught(out)                  \* outer `except Exception`
              THEN /\ reg' = [logged EXCEPT !.st = "done"]
                   /\ pc' = "reg_return"
            ELSE IF reg.attempt < reg.max_retries - 1
              THEN /\ reg' = [logged EXCEPT !.st = "sleep"]
                   /\ pc' = "reg_sleep"
            ELSE /\ reg' = [logged EXCEPT !.st = "done"]
                 /\ pc' = "reg_return"               \* raise Exception, caught: None
    /\ UNCHANGED <<variant, frame, called, mainLocals, loopVars, exitVars, fn>>

\* time.sleep(retry_delay); retry_delay *= 2; next iteration
Reg_Sleep ==
    /\ pc = "reg_sleep"
    /\ reg' = [reg EXCEPT !.st = "loop",
                          !.sleeps = Append(@, reg.retry_delay),
                          !.retry_delay = RegNextDelay(@),
                          !.attempt = @ + 1]
    /\ pc' = "reg_post"
    /\ UNCHANGED <<variant, frame, called, mainLocals, loopVars, exitVars, fn>>

\* faulty variant: main (site) exits 0 whatever register_ce returned
RegExitStatusAlwaysZero(success) == 0

\* the status main (site) exits with: sys.exit(0) if success else sys.exit(1)
RegExitStatus(success) == IF success THEN 0 ELSE 1

\* success = register_ce(...); if success: sys.exit(0) else: sys.exit(1)
Main_RegResult ==
    /\ pc = "reg_return"
    /\ SysExit(RegExitStatus(Truthy(reg.result)),
               IF Truthy(reg.result) THEN "registered" ELSE "registration")
    /\ UNCHANGED <<variant, frame, called, mainLocals, loopVars, reg, fn>>

-----------------------------------------------------------------------------
(* A run of main()                                                         *)

NoFn == [op |-> "none"]

Init ==
    /\ variant \in Variants
    /\ pc = "start"
    /\ frame = NoFrame
    /\ called = <<>>
    /\ deployment = Null
    /\ cloud = Null
    /\ report = NoReport
    /\ tags = Null
    /\ metadata = Null
    /\ labInfo = Null
    /\ sqs_meta = Null
    /\ retries = 0
    /\ retry_delay = 0
    /\ hook = FALSE
    /\ sent = <<>>
    /\ inflight = <<>>
    /\ clients = 0
    /\ slept = <<>>
    /\ reg = NoReg
    /\ exit_status = Running
    /\ cause = "running"
    /\ fn = NoFn

Next ==
    \/ Main_Start
    \/ FetchRequest
    \/ FetchSleep
    \/ QM_Deployment
    \/ QM_Tags
    \/ QM_Cloud
    \/ Main_GetLabInfo
    \/ Main_BuildSqsMeta
    \/ Main_Fail
    \/ Main_AppPayload
    \/ Main_EnterLoop
    \/ Loop_Send
    \/ Loop_SendDone
    \/ Loop_Sleep
    \/ Loop_Exit
    \/ Sigint
    \/ Sigterm
    \/ Main_Register
    \/ Reg_CeIp
    \/ Reg_Post
    \/ Reg_Sleep
    \/ Main_RegResult
    \/ Unhandled
    \/ Teardown
    \/ TeardownDone
    \/ Exit

Spec == Init /\ [][Next]_vars

-----------------------------------------------------------------------------
(* The credential scan and the region selection on their own: the input is *)
(* drawn in the initial state, one action applies the function.            *)

\* main() does not run in these specifications
NoRun ==
    /\ variant = "base"
    /\ pc = "idle"
    /\ frame = NoFrame
    /\ called = <<>>
    /\ deployment = Null
    /\ cloud = Null
    /\ report = NoReport
    /\ tags = Null
    /\ metadata = Null
    /\ labInfo = Null
    /\ sqs_meta = Null
    /\ retries = 0
    /\ retry_delay = 0
    /\ hook = FALSE
    /\ sent = <<>>
    /\ inflight = <<>>
    /\ clients = 0
    /\ slept = <<>>
    /\ reg = NoReg
    /\ exit_status = Running
    /\ cause = "running"

mainVars == <<variant, pc, frame, called, deployment, cloud, report, tags,
              metadata, labInfo, sqs_meta, retries, retry_delay, hook, sent,
              inflight, clients, slept, reg, exit_status, cause>>

\* the fetch results the credential scan is given
CredInputs ==
    { Null, Val([cloudAccounts |-> Missing]) } \cup
    { Val([cloudAccounts |-> Val(l)]) : l \in AccountLists }

InitCred ==
    /\ NoRun
    /\ \E op \in {"find_aws_cred", "find_aws_metadata"}, x \in CredInputs :
         \E p \in IF op = "find_aws_metadata"
                    THEN ProbeOutcomes(Len(Account(<<>>).regions))
                    ELSE { <<>> } :
           fn = [op |-> op, in |-> x, probes |-> p, done |-> FALSE, out |-> Null]

Apply_find_aws_cred ==
    /\ fn.op = "find_aws_cred"
    /\ ~fn.done
    /\ fn' = [fn EXCEPT !.done = TRUE, !.out = find_aws_cred(fn.in)]
    /\ UNCHANGED mainVars

Apply_find_aws_metadata ==
    /\ fn.op = "find_aws_metadata"
    /\ ~fn.done
    /\ fn' = [fn EXCEPT !.done = TRUE, !.out = find_aws_metadata(fn.in, fn.probes)]
    /\ UNCHANGED mainVars

NextCred == Apply_find_aws_cred \/ Apply_find_aws_metadata

SpecCred == InitCred /\ [][NextCred]_vars

RegionNames == {"a", "b", "c", "d"}

\* candidate lists: distinct regions, in the order the service lists them
RegionLists ==
    UNION { { r \in [1..n -> RegionNames] :
                \A i, j \in 1..n : r[i] = r[j] => i = j } : n \in 0..MaxRegions }

InitRegion ==
    /\ NoRun
    /\ \E r \in RegionLists :
         \E p \in ProbeOutcomes(Len(r)) :
            fn = [op |-> "find_aws_region", in |-> r, probes |-> p,
                  done |-> FALSE, out |-> ""]

Apply_find_aws_region ==
    /\ fn.op = "find_aws_region"
    /\ ~fn.done
    /\ fn' = [fn EXCEPT !.done = TRUE, !.out = find_aws_region(fn.in, fn.probes)]
    /\ UNCHANGED mainVars

NextRegion == Apply_find_aws_region

SpecRegion == InitRegion /\ [][NextRegion]_vars

-----------------------------------------------------------------------------
(* The padding step of b64_lazy_decode on its own.                         *)

\* an encoded tag value of n characters
EncodedTag(n) == [i \in 1..n |-> "A"]

\* faulty variant: a remainder that truncates toward zero, as in C, which is
\* negative when the left operand is
PadCountTruncating(n) == IF n <= 4 THEN (4 - n) % 4 ELSE 0 - ((n - 4) % 4)

\* (4 - len(s)) % 4: Python's % takes the sign of the divisor, so the result
\* is the non-negative residue also when 4 - len(s) is negative
PadCount(n) == (4 - n) % 4

\* "=" * k: the empty string when k <= 0
Repeat(c, k) == [i \in 1..k |-> c]

\* s + "=" * ((4 - len(s)) % 4), the string handed to base64.b64decode
Padded(s) == s \o Repeat("=", PadCount(Len(s)))

InitPad ==
    /\ NoRun
    /\ \E n \in 0..MaxTagLen :
         fn = [op |-> "b64_lazy_decode", in |-> EncodedTag(n), done |-> FALSE,
               out |-> <<>>]

Apply_b64_lazy_decode ==
    /\ fn.op = "b64_lazy_decode"
    /\ ~fn.done
    /\ fn' = [fn EXCEPT !.done = TRUE, !.out = Padded(fn.in)]
    /\ UNCHANGED mainVars

NextPad == Apply_b64_lazy_decode

SpecPad == InitPad /\ [][NextPad]_vars

-----------------------------------------------------------------------------
(* The heartbeat program running without end: the steps of the loop with   *)
(* the histories of sends, clients and sleeps left alone, so that a run of *)
(* any length stays within finitely many states.                           *)

InitLive ==
    /\ Init
    /\ variant = "base"

\* success = send_sqs(sqs_meta) is called
Live_Send ==
    /\ pc = "loop"
    /\ LoopContinues(retries)
    /\ inflight' = <<[msg |-> Message(sqs_meta, FALSE), client |-> clients + 1]>>
    /\ pc' = "sending"
    /\ UNCHANGED <<variant, frame, called, mainLocals, retries, retry_delay,
                   hook, sent, clients, slept, reg, exitVars, fn>>

\* send_sqs returns; the loop updates retries and retry_delay
Live_SendDone ==
    /\ pc = "sending"
    /\ \E out \in SendOutcomes :
         /\ retries' = NextRetries(retries, out = "ok")
         /\ retry_delay' = DelayAfter(out = "ok")
    /\ inflight' = <<>>
    /\ pc' = "sleep"
    /\ UNCHANGED <<variant, frame, called, mainLocals, hook, sent, clients,
                   slept, reg, exitVars, fn>>

\* time.sleep(retry_delay)
Live_Sleep ==
    /\ pc = "sleep"
    /\ pc' = "loop"
    /\ UNCHANGED <<variant, frame, called, mainLocals, loopVars, reg,
                   exitVars, fn>>

\* what the process does by itself once the loop is entered
LoopStep ==
    \/ Live_Send
    \/ Live_SendDone
    \/ Live_Sleep
    \/ Loop_Exit
    \/ Teardown
    \/ TeardownDone

NextLive ==
    \/ Main_Start
    \/ FetchRequest
    \/ FetchSleep
    \/ QM_Deployment
    \/ QM_Tags
    \/ QM_Cloud
    \/ Main_GetLabInfo
    \/ Main_BuildSqsMeta
    \/ Main_Fail
    \/ Main_EnterLoop
    \/ Live_Send
    \/ Live_SendDone
    \/ Live_Sleep
    \/ Loop_Exit
    \/ Sigint
    \/ Sigterm
    \/ Unhandled
    \/ Teardown
    \/ TeardownDone
    \/ Exit

\* the interpreter keeps running the one thread: a sleep ends, and a boto3
\* call returns or raises within its connect and read timeouts.  Signals are
\* the environment's and get no fairness; nor do the metadata requests, which
\* are made without a timeout.
SpecLive == InitLive /\ [][NextLive]_vars /\ WF_vars(LoopStep)

-----------------------------------------------------------------------------
(* Properties                                                              *)

\* the heartbeat sends of the run, in order
Heartbeats == SelectSeq(sent, LAMBDA r : ~r.msg.kill)

\* the teardown sends of the run
Kills == SelectSeq(sent, LAMBDA r : r.msg.kill)

\* length of the run of failures that ends a history of sends
RECURSIVE TrailingFailures(_)
TrailingFailures(s) ==
    IF s = <<>> \/ s[Len(s)].ok THEN 0
    ELSE 1 + TrailingFailures(SubSeq(s, 1, Len(s) - 1))

Terminated == pc \in {"exiting", "teardown", "exited", "killed"}

RECURSIVE Pow2(_)
Pow2(n) == IF n = 0 THEN 1 ELSE 2 * Pow2(n - 1)

\* the entries of a request history that are not successes
Failures(log) == SelectSeq(log, LAMBDA o : o # "ok")

\* C1: in the heartbeat loop the failure counter is the length of the run of
\* consecutive failed sends that ends the history (a success resets it to 0);
\* a run of 6 consecutive failures is never followed by another heartbeat;
\* the loop ends by itself, with a non-zero exit status, only after 6
\* consecutive failures -- failures separated by a success never end it.
C1_CeilingIsConsecutive ==
    variant = "base" =>
      /\ InLoop => retries = TrailingFailures(Heartbeats)
      /\ \A i \in 1..Len(Heartbeats) :
           (/\ i + SqsMaxRetries - 1 <= Len(Heartbeats)
            /\ \A k \in i..(i + SqsMaxRetries - 1) : ~Heartbeats[k].ok)
           => i + SqsMaxRetries - 1 = Len(Heartbeats)
      /\ cause = "ceiling" =>
           /\ TrailingFailures(Heartbeats) = SqsMaxRetries
           /\ exit_status = 1
      /\ (pc = "loop" /\ TrailingFailures(Heartbeats) = SqsMaxRetries)
           => (~ENABLED Loop_Send /\ ENABLED Loop_Exit)

\* C1 witness: 3 failures, a success and 5 failures did not end the loop; the
\* 6th consecutive failure did, and the process exited with status 1.
C1_Witness ==
    /\ variant = "base"
    /\ pc = "exited"
    /\ cause = "ceiling"
    /\ exit_status = 1
    /\ Len(Heartbeats) = 10
    /\ \A i \in 1..10 : Heartbeats[i].ok <=> i = 4

\* C2: a fetch_metadata call sleeps only between two attempts (none before the
\* first, none after the last); when it has returned after k failed attempts
\* it has issued k+1 requests and slept k times 1, 2, 4, ... if it returns a
\* body (k < 5), and 5 requests and the 4 sleeps 1, 2, 4, 8 if it returns None.
C2_FetchBackoff ==
    frame.st # "none" =>
      LET k == Len(Failures(frame.log))
      IN /\ Len(frame.sleeps) =
              IF frame.st = "try" THEN Len(frame.log) ELSE Len(frame.log) - 1
         /\ \A i \in DOMAIN frame.sleeps : frame.sleeps[i] = Pow2(i - 1)
         /\ (frame.st = "done" /\ IsVal(frame.result)) =>
              /\ k < 5
              /\ Len(frame.log) = k + 1
              /\ frame.log[k + 1] = "ok"
              /\ Len(frame.sleeps) = k
         /\ (frame.st = "done" /\ ~IsVal(frame.result)) =>
              /\ k = 5
              /\ Len(frame.log) = 5
              /\ frame.sleeps = << 1, 2, 4, 8 >>

\* C2 witness: a fetch that failed 5 times returned None after 4 sleeps.
C2_Witness ==
    /\ frame.st = "done"
    /\ ~IsVal(frame.result)
    /\ Len(frame.log) = 5
    /\ frame.sleeps = << 1, 2, 4, 8 >>

\* the three stages of query_metadata, in order
Stages == << DeploymentUrl, TagsUrl(variant), CloudAccountsUrl >>

\* the part of `called` that query_metadata requested
QueryCalls == SelectSeq(called, LAMBDA u : u # CeTagsUrl)

\* query_metadata is past its deployment stage / its tag stage
PastDeployment == pc \notin {"start", "qm_deployment"}
PastTags == pc \notin {"start", "qm_deployment", "qm_tags"}

\* the deployment body lacks a field query_metadata extracts
DeploymentIncomplete ==
    /\ IsVal(deployment)
    /\ \/ ~IsVal(deployment.v.deployment)
       \/ ~IsVal(deployment.v.deployment.v.id)
       \/ variant # "site" /\ ~IsVal(deployment.v.deployment.v.deployer)

\* C3 (as claimed): the endpoints are requested in the order deployment, tags,
\* cloudAccounts, and a stage whose fetch or extraction fails is the last one
\* requested -- also when the deployment body lacks a field to extract.
C3_ShortCircuitOnExtraction ==
    /\ QueryCalls = SubSeq(Stages, 1, Len(QueryCalls))
    /\ (PastDeployment /\ (~IsVal(deployment) \/ DeploymentIncomplete))
         => QueryCalls = << DeploymentUrl >>
    /\ (PastTags /\ IsVal(deployment) /\ ~IsVal(tags))
         => QueryCalls = << DeploymentUrl, TagsUrl(variant) >>

\* C3 (amended): the endpoints are requested in the order deployment, tags,
\* cloudAccounts; a failed deployment fetch makes query_metadata return None
\* with no request to the tag and cloudAccounts endpoints; a failed tag fetch
\* or tag extraction makes it return None with no request to cloudAccounts.
C3_ShortCircuit ==
    /\ QueryCalls = SubSeq(Stages, 1, Len(QueryCalls))
    /\ (PastDeployment /\ ~IsVal(deployment))
         => (QueryCalls = << DeploymentUrl >> /\ metadata = Null)
    /\ (PastTags /\ IsVal(deployment) /\ ~IsVal(tags))
         => (QueryCalls = << DeploymentUrl, TagsUrl(variant) >> /\ metadata = Null)

\* C3 witness: the deployment fetch failed, the run is over, and nothing but
\* the deployment endpoint was ever requested.
C3_Witness ==
    /\ pc = "exited"
    /\ ~IsVal(deployment)
    /\ called = << DeploymentUrl >>

\* C4 (as claimed): once the loop was entered, a terminated process has
\* attempted the teardown send exactly once, after the last heartbeat.
C4_TeardownOnEveryTermination ==
    (hook /\ pc \in {"exited", "killed"}) =>
      /\ Len(Kills) = 1
      /\ sent[Len(sent)].msg.kill

\* the credentials of the wanted type in a cloudAccounts list, by position
AwsPositions(accounts) ==
    { p \in (DOMAIN accounts) \X (1..MaxCreds) :
        /\ p[2] \in DOMAIN accounts[p[1]].credentials
        /\ accounts[p[1]].credentials[p[2]].type = AwsType }

\* position p comes no later than q in account order, then credential order
Before(p, q) == p[1] < q[1] \/ (p[1] = q[1] /\ p[2] <= q[2])

\* the credential a scan result carries
FoundCred(op, out) == IF op = "find_aws_metadata" THEN out.v.aws_cred ELSE out.v

Registered == reg.st = "done" /\ reg.log # <<>> /\ reg.log[Len(reg.log)] = "ok"

\* the run ended on a signal
Signalled == cause \in {"sigint", "sigterm"}

\* C6: a running process has no exit status; a run whose metadata resolution
\* or lab-info load failed exits 1; a run whose delivery retries are exhausted
\* (6 consecutive failed heartbeats, or 5 registration attempts without
\* success) exits 1; the heartbeat variants never exit 0; the registration
\* variant exits 0 exactly when registration succeeded.
C6_ExitCodes ==
    /\ ~Terminated <=> exit_status = Running
    /\ Terminated =>
         /\ (~IsVal(metadata) \/ (variant # "app" /\ ~IsVal(labInfo)))
              => exit_status = 1
         /\ (variant = "base" /\ ~Signalled
               /\ TrailingFailures(Heartbeats) = SqsMaxRetries)
              => exit_status = 1
         /\ (variant = "site" /\ reg.st = "done" /\ ~Registered)
              => exit_status = 1
         /\ variant \in {"base", "app"} => exit_status # 0
         /\ variant = "site" => (exit_status = 0 <=> Registered)

\* C6 witness: the registration variant exited 0 after a successful POST that
\* followed failed attempts.
C6_Witness ==
    /\ variant = "site"
    /\ pc = "exited"
    /\ exit_status = 0
    /\ Len(reg.log) > 1
    /\ Registered

\* the candidates whose probe produced a measurement
Measured(probes) == { i \in DOMAIN probes : probes[i] # 0 }

\* C7: find_aws_region returns the candidate of lowest measured latency among
\* those whose probe succeeded, the earliest in scan order among equals, and
\* the default region when no probe succeeded; a failed probe only removes
\* its candidate.
C7_FastestRegion ==
    (fn.op = "find_aws_region" /\ fn.done) =>
      LET ok == Measured(fn.probes)
      IN IF ok = {} THEN fn.out = DefaultRegion
         ELSE \E i \in ok :
                 /\ fn.out = fn.in[i]
                 /\ \A j \in ok :
                      \/ fn.probes[i] < fn.probes[j]
                      \/ fn.probes[i] = fn.probes[j] /\ i <= j

\* C7 witness: the first probe failed, the two others tied; the earlier of
\* the two was returned.
C7_Witness ==
    /\ fn.op = "find_aws_region"
    /\ fn.done
    /\ fn.in = << "a", "b", "c" >>
    /\ fn.probes = << 0, 2, 2 >>
    /\ fn.out = "b"

\* C8 (as claimed): register_ce makes at most 5 POST attempts and the delays
\* between them are those of fetch_metadata, 1, 2, 4, 8; exhausting the
\* attempts ends the run with status 1.
C8_SameDelaysAsFetch ==
    reg.st # "none" =>
      /\ Len(reg.log) <= FetchMaxRetries
      /\ \A i \in DOMAIN reg.sleeps : reg.sleeps[i] = FetchFirstDelay * Pow2(i - 1)
      /\ (Terminated /\ reg.st = "done" /\ ~Registered) => exit_status = 1

\* C8 (amended): register_ce makes at most 5 POST attempts; it sleeps only
\* after an attempt that raised a request error and was not the 5th, and the
\* delays are 10, 20, 40, 80 (base 10, doubling); once an attempt succeeded
\* or the 5 attempts are used up no further attempt follows, and a run
\* without a successful attempt exits with status 1.
C8_RegBackoff ==
    reg.st # "none" =>
      LET n == Len(reg.log)
          early == SubSeq(reg.log, 1, IF n < RegMaxRetries THEN n ELSE RegMaxRetries - 1)
      IN /\ n <= RegMaxRetries
         /\ \A i \in DOMAIN reg.sleeps : reg.sleeps[i] = RegFirstDelay * Pow2(i - 1)
         /\ Len(reg.sleeps) =
              Len(SelectSeq(early, LAMBDA o : o = "error"))
              - (IF reg.st = "sleep" THEN 1 ELSE 0)
         /\ \A i \in DOMAIN reg.log : reg.log[i] = "ok" => i = n
         /\ (reg.st = "done" /\ n > 0 /\ ~Registered) => n = RegMaxRetries
         /\ reg.st = "done" => pc \in {"reg_return", "exiting", "exited"}
         /\ (Terminated /\ reg.st = "done" /\ ~Registered) => exit_status = 1

\* C8 witness: five attempts raised, the sleeps were 10, 20, 40, 80, and the
\* run exited with status 1.
C8_Witness ==
    /\ pc = "exited"
    /\ reg.st = "done"
    /\ reg.log = << "error", "error", "error", "error", "error" >>
    /\ reg.sleeps = << 10, 20, 40, 80 >>
    /\ exit_status = 1

\* C9: no error of a request leaves fetch_metadata as an exception: each one
\* is a failed attempt, followed by the backoff sleep and another attempt
\* unless it was the 5th, and the call ends with a body or None.
C9_FetchNeverRaises ==
    /\ frame.st \in {"none", "try", "sleep", "done"}
    /\ frame.st = "none" \/ pc # "raise"
    /\ frame.st = "try" => Len(frame.log) = frame.attempt
    /\ frame.st = "sleep" =>
         /\ frame.log[Len(frame.log)] \in ErrorKinds
         /\ Len(frame.log) < FetchMaxRetries
    /\ frame.st = "done" =>
         \/ IsVal(frame.result) /\ frame.log[Len(frame.log)] = "ok"
         \/ /\ frame.result = Null
            /\ Len(frame.log) = FetchMaxRetries
            /\ \A i \in DOMAIN frame.log : frame.log[i] \in ErrorKinds

\* C9 witness: in the base variant a fetch met all four kinds of error, was
\* retried each time, and returned None after the 5th.
C9_Witness ==
    /\ variant = "base"
    /\ frame.st = "done"
    /\ frame.result = Null
    /\ { frame.log[i] : i \in DOMAIN frame.log } = ErrorKinds

\* C10 (as claimed): in the heartbeat and registration programs no resolution
\* step ends in an unhandled exception: an incomplete response makes
\* query_metadata or register_ce return None and main take its exit path.
C10_NoUnhandledException ==
    variant \in {"base", "site"} => (pc # "raise" /\ cause # "exception")

-----------------------------------------------------------------------------
(* C11: what the credential stage reports                                  *)

\* query_metadata is past its credential stage: the cloudAccounts fetch has
\* returned and the scan has run
PastCloud ==
    /\ \E i \in DOMAIN called : called[i] = CloudAccountsUrl
    /\ frame = NoFrame \/ frame.url # CloudAccountsUrl

\* a cloudAccounts body that was fetched and holds no AWS_API_CREDENTIAL
EmptyAccounts == Val([cloudAccounts |-> Val(<<>>)])

\* C11 (as claimed): in the heartbeat and registration programs, when the
\* credential stage fails, a failed cloudAccounts fetch and a fetched list
\* without an AWS_API_CREDENTIAL are reported differently: the message printed
\* for the case at hand is not the message printed for the other case.
C11_AbsenceDistinguishable ==
    (variant # "app" /\ PastCloud /\ ~IsVal(find_aws_cred(cloud))) =>
        LET other == IF IsVal(cloud) THEN Null ELSE EmptyAccounts
        IN /\ report # NoReport
           /\ report # CredentialReport(variant, other)

-----------------------------------------------------------------------------
(* C12: the teardown send and the heartbeat sends                          *)

\* C12: at most one send_sqs call is in flight at any time; a call is in
\* flight only while main is inside the heartbeat send or the interpreter is
\* inside the atexit hook; while the teardown send runs no heartbeat send is
\* in flight (it has returned or was abandoned); and two calls in flight
\* would never hold the same client, each call building its own.
C12_TeardownAfterHeartbeat ==
    /\ Len(inflight) <= 1
    /\ inflight # <<>> <=> pc \in {"sending", "teardown"}
    /\ \A i \in DOMAIN inflight : inflight[i].msg.kill = (pc = "teardown")
    /\ \A i, j \in DOMAIN inflight :
         inflight[i].client = inflight[j].client => i = j
    /\ \A i \in DOMAIN inflight : inflight[i].client = clients

\* C12 witness: SIGINT arrived while a heartbeat send was in flight (the send
\* was started and never returned), and the teardown send is now running.
C12_Witness ==
    /\ pc = "teardown"
    /\ cause = "sigint"
    /\ Len(sent) >= 1
    /\ clients = Len(sent) + 2
    /\ Len(inflight) = 1

-----------------------------------------------------------------------------
(* C13: the identity carried by the messages                               *)

\* the identity the run resolved: deployment id and deployer from the
\* /deployment body, lab id from the runner tags
ResolvedIdentity ==
    [id |-> deployment.v.deployment.v.id,
     deployer |-> deployment.v.deployment.v.deployer,
     lab_id |-> tags.v["LabID"]]

\* the identity fields of a message
IdentityOf(msg) == [id |-> msg.id, deployer |-> msg.deployer, lab_id |-> msg.lab_id]

\* every message of the run: those sent and those in flight
Messages == [i \in 1..Len(sent) |-> sent[i].msg] \o
            [i \in 1..Len(inflight) |-> inflight[i].msg]

\* C13: every message of a run, sent or in flight, carries exactly the
\* resolved identity (id = deployment id, deployer, lab_id = lab id), each a
\* defined value; every message sent by the loop has kill = false; a message
\* with kill = true is the last message of the run, there is at most one, and
\* it is sent by the atexit hook; so all messages of a run have one identity.
C13_MessageIdentity ==
    /\ \A i \in DOMAIN Messages :
         /\ IdentityOf(Messages[i]) = ResolvedIdentity
         /\ IsVal(Messages[i].id)
         /\ IsVal(Messages[i].deployer)
         /\ IsVal(Messages[i].lab_id)
         /\ Messages[i].kill =>
              /\ i = Len(Messages)
              /\ pc \in {"teardown", "exited"}
              /\ hook
         /\ ~Messages[i].kill /\ pc \in {"teardown", "exited"} => i < Len(Messages)
    /\ InLoop => \A i \in DOMAIN Messages : ~Messages[i].kill

\* C13 witness: a finished run with three heartbeats, successes and failures
\* among them, then the teardown message.
C13_Witness ==
    /\ pc = "exited"
    /\ Len(Heartbeats) = 3
    /\ Len(Kills) = 1
    /\ \E i, j \in DOMAIN Heartbeats : Heartbeats[i].ok /\ ~Heartbeats[j].ok

-----------------------------------------------------------------------------
(* C14: the padding b64_lazy_decode adds                                   *)

\* the "=" characters at the end of a padded string beyond the tag itself
PadAdded == Len(fn.out) - Len(fn.in)

\* C14: for every tag length n, the number of "=" characters b64_lazy_decode
\* appends equals (4 - (n mod 4)) mod 4: it is between 0 and 3, it is 0 when
\* n is a multiple of 4, the tag itself is kept unchanged in front, and the
\* padded length is a multiple of 4.
C14_PaddingCount ==
    (fn.op = "b64_lazy_decode" /\ fn.done) =>
        LET n == Len(fn.in)
        IN /\ PadAdded = (4 - (n % 4)) % 4
           /\ PadAdded \in 0..3
           /\ (n % 4 = 0) => PadAdded = 0
           /\ (n % 4 # 0) => PadAdded = 4 - (n % 4)
           /\ SubSeq(fn.out, 1, n) = fn.in
           /\ \A i \in (n + 1)..Len(fn.out) : fn.out[i] = "="
           /\ Len(fn.out) % 4 = 0

\* C14 witness: a tag longer than 4 characters whose length is not a multiple
\* of 4 (4 - n is negative) was padded with three characters.
C14_Witness ==
    /\ fn.op = "b64_lazy_decode"
    /\ fn.done
    /\ Len(fn.in) > 4
    /\ Len(fn.in) % 4 = 1
    /\ PadAdded = 3

-----------------------------------------------------------------------------
(* C15: the iterations of the heartbeat loop                               *)

\* C15: in the heartbeat loop each iteration is one send followed by one
\* sleep: the i-th sleep follows the i-th heartbeat and lasts 60 s when that
\* heartbeat succeeded and 10 s when it failed; a success sets the failure
\* counter to 0 and a failure adds 1 to it; the counter stays within 0..6;
\* and a send is started only while the counter is below 6.
C15_OneSendOneSleep ==
    /\ retries \in 0..6
    /\ Len(slept) <= Len(Heartbeats)
    /\ \A i \in DOMAIN slept : slept[i] = IF Heartbeats[i].ok THEN 60 ELSE 10
    /\ pc \in {"loop", "sending"} => Len(slept) = Len(Heartbeats)
    /\ pc = "sleep" =>
         /\ Len(slept) = Len(Heartbeats) - 1
         /\ retry_delay = IF Heartbeats[Len(Heartbeats)].ok THEN 60 ELSE 10
         /\ retries = IF Heartbeats[Len(Heartbeats)].ok THEN 0
                      ELSE TrailingFailures(SubSeq(Heartbeats, 1, Len(Heartbeats) - 1)) + 1
    /\ Terminated => Len(slept) >= Len(Heartbeats) - 1
    /\ pc = "sending" => retries < 6
    /\ (pc = "loop" /\ retries >= 6) => ~ENABLED Loop_Send

\* C15 witness: four iterations are complete, with both a 60 s and a 10 s
\* sleep among them, and the counter stands at 2.
C15_Witness ==
    /\ pc = "loop"
    /\ Len(slept) = 4
    /\ \E i, j \in DOMAIN slept : slept[i] = 60 /\ slept[j] = 10
    /\ retries = 2

-----------------------------------------------------------------------------
(* C16: liveness of the heartbeat loop                                     *)

\* a step in which a heartbeat send returns successfully
SendSucceeds == pc = "sending" /\ pc' = "sleep" /\ retries' = 0

\* the process has ended with a non-zero status
ExitedNonZero == pc \in {"exited", "killed"} /\ exit_status > 0

\* C16: once the heartbeat loop is entered, (a) if from some point on no send
\* succeeds, the process eventually ends with a non-zero exit status; (b) if
\* the failure counter never reaches 6 (sends never fail 6 times in a row),
\* the loop never leaves through its ceiling exit, and unless a signal ends
\* the process it never ends and a heartbeat send is started again and again.
C16_LoopLiveness ==
    /\ (<>[][~SendSucceeds]_vars) => [](hook => <>ExitedNonZero)
    /\ [](retries < SqsMaxRetries) =>
         /\ [](cause # "ceiling")
         /\ [](~Signalled) => [](hook => (~Terminated /\ <>(pc = "sending")))

\* C16 witness: in a run of the heartbeat program the sixth consecutive
\* failure has been counted, the loop has left through its ceiling exit and
\* the process has ended with status 1 after the teardown send.
C16_Witness ==
    /\ pc = "exited"
    /\ hook
    /\ retries = SqsMaxRetries
    /\ cause = "ceiling"
    /\ exit_status = 1

-----------------------------------------------------------------------------
(* C17: failed attempts of register_ce                                     *)

\* C17 (as claimed): in register_ce every attempt that did not return 200
\* with a truthy body is a failed attempt like a transport error: it counts
\* toward the bound of 5 attempts and, unless it was the last one allowed, is
\* followed by a backoff sleep before the next attempt, so when an attempt is
\* about to be made there have been as many sleeps as attempts; and success
\* is reported only if the last attempt returned 200 with a truthy body.
C17_EveryFailureBacksOff ==
    reg.st # "none" =>
      /\ Len(reg.log) <= RegMaxRetries
      /\ reg.st = "loop" => Len(reg.log) = reg.attempt
      /\ reg.st = "loop" => Len(reg.sleeps) = Len(reg.log)
      /\ Truthy(reg.result) => (reg.log # <<>> /\ reg.log[Len(reg.log)] = "ok")

-----------------------------------------------------------------------------
(* C18: construction of the delivery client                                *)

\* C18 (as claimed): the delivery client is constructed once per run and
\* reused: the number of client constructions never exceeds one, however many
\* sends are made.
C18_ClientConstructedOnce == clients <= 1

\* the send_sqs calls started so far that returned or are still in flight
SendsStarted == Len(sent) + Len(inflight)

\* C18 (amended): the delivery client is constructed inside send_sqs, once
\* per call: the number of client constructions equals the number of send_sqs
\* calls started (heartbeats and teardown, counting a call abandoned on a
\* signal), so it grows with the number of sends, and the call in flight uses
\* the client constructed last.
C18_ClientPerSend ==
    /\ ~Signalled => clients = SendsStarted
    /\ Signalled => clients \in {SendsStarted, SendsStarted + 1}
    /\ \A i \in DOMAIN inflight : inflight[i].client = clients
    /\ ~hook => clients = 0

\* C18 witness: a run that left at the ceiling after six failed heartbeats
\* and sent the teardown has constructed seven clients.
C18_Witness ==
    /\ pc = "exited"
    /\ cause = "ceiling"
    /\ Len(Heartbeats) = SqsMaxRetries
    /\ clients = SqsMaxRetries + 1

-----------------------------------------------------------------------------
(* C19: the region of the delivery target                                  *)

\* C19 (as claimed): in the heartbeat program, from the moment the loop is
\* entered, and so whenever a send is attempted, the region in sqs_meta is a
\* defined string: the region embedded in the queue URL when the URL matches
\* sqs.<region>.amazonaws.com, the fallback default region otherwise.
C19_RegionAlwaysDefined ==
    (variant = "base" /\ hook) =>
        LET url == sqs_meta.v.sqsURL.v
            embedded == find_sqs_region(url)
        IN /\ IsVal(sqs_meta.v.region)
           /\ sqs_meta.v.region =
                IF IsVal(embedded) THEN embedded ELSE Val(DefaultRegion)

-----------------------------------------------------------------------------
(* C20: a failed teardown send                                             *)

\* C20: once the teardown send has started, whatever its outcome the only
\* step the process takes is the return of the hook, which appends the
\* teardown to the history, leaves the exit status and the cause of the exit
\* as they were decided before, and ends the process; and a process that has
\* ended takes no further step, so no send or retry follows.
C20_TeardownFailureSwallowed ==
    [][ /\ pc = "teardown" =>
             /\ pc' = "exited"
             /\ exit_status' = exit_status
             /\ cause' = cause
             /\ retries' = retries
             /\ Len(sent') = Len(sent) + 1
             /\ sent'[Len(sent')].msg.kill
             /\ inflight' = <<>>
        /\ pc # "exited"
        /\ pc = "exiting" /\ hook => pc' = "teardown" /\ exit_status' = exit_status
      ]_vars

\* C20 witness: the process was interrupted, its teardown send failed, and it
\* has ended with the status of the interrupt, the failed teardown being the
\* last send of the run.
C20_Witness ==
    /\ pc = "exited"
    /\ hook
    /\ cause = "sigint"
    /\ exit_status = 128 + 2
    /\ Len(Kills) = 1
    /\ ~sent[Len(sent)].ok
    /\ sent[Len(sent)].msg.kill

-----------------------------------------------------------------------------
(* C21: no delivery without a complete resolution                          *)

\* something was handed to the queue, or is being handed, or a delivery
\* client was built
DeliveryAttempted == sent # <<>> \/ inflight # <<>> \/ clients > 0

\* main is inside register_ce, or register_ce has run
RegistrationEntered ==
    reg.st # "none" \/ pc \in {"reg_ce_ip", "reg_post", "reg_sleep", "reg_return"}

\* C21: no message, heartbeat or teardown, is sent and no delivery client is
\* built unless the exit hook is registered, and the hook is registered only
\* in the heartbeat program with query_metadata, get_lab_info and
\* build_sqs_meta all having returned a value; in the registration program
\* register_ce is entered, and so a POST is issued, only with the metadata
\* and the lab descriptor both resolved; a run that ended because a
\* resolution step failed has sent nothing and posted nothing.
C21_NoDeliveryWithoutResolution ==
    /\ DeliveryAttempted => hook
    /\ hook =>
         /\ variant = "base"
         /\ IsVal(metadata)
         /\ IsVal(labInfo)
         /\ IsVal(sqs_meta)
    /\ RegistrationEntered =>
         /\ variant = "site"
         /\ IsVal(metadata)
         /\ IsVal(labInfo)
    /\ reg.st # "none" /\ reg.log # <<>> => IsVal(metadata) /\ IsVal(labInfo)
    /\ (Terminated /\ variant \in {"base", "site"} /\ ~Resolved /\ cause # "exception") =>
         /\ cause = "resolution"
         /\ ~hook
         /\ ~DeliveryAttempted
         /\ reg.st = "none"

\* C21 witness: in the heartbeat program the metadata was resolved and a lab
\* descriptor was loaded, but build_sqs_meta failed on it; the run has ended
\* with status 1, no hook registered and nothing sent.
C21_Witness ==
    /\ variant = "base"
    /\ pc = "exited"
    /\ IsVal(metadata)
    /\ IsVal(labInfo)
    /\ ~IsVal(sqs_meta)
    /\ ~hook
    /\ sent = <<>>
    /\ clients = 0
    /\ exit_status = 1

====
